---- MODULE Spec2Model ----
(***************************************************************************)
(* A model of models/mip_nerf.py: the conditioned MLP (MLP.__init__,       *)
(* MLP.forward) and the level orchestrator (MipNerf.__init__,              *)
(* MipNerf.forward).                                                       *)
(*                                                                         *)
(* Tensors are modelled by what the code's control flow can observe of     *)
(* them: their shape and the provenance of their values (the level that    *)
(* produced them and the random draws that went into them).  The routines  *)
(* imported from models.mip (sample_along_rays, resample_along_rays,       *)
(* integrated_pos_enc, pos_enc, volumetric_rendering) are not part of the  *)
(* source at hand; they are modelled from their call sites and from the    *)
(* written specification.                                                  *)
(***************************************************************************)
EXTENDS Integers, Sequences, FiniteSets, TLC

VARIABLES
    cfg,        \* the keyword arguments of MipNerf.__init__
    margs,      \* the arguments of MLP.__init__
    mlp,        \* the constructed MLP (self.mlp), or NoMLP
    phase,      \* where the program is
    err,        \* the exception last raised, "none" if none
    call,       \* the arguments of the MipNerf.forward call in progress
    i_level,    \* forward's loop variable
    t_samples,  \* forward's local t_samples
    weights,    \* forward's local weights
    ret,        \* forward's local ret
    rng,        \* the state of torch's global default generator
    mlpIn,      \* the shapes handed to the last MLP.forward call
    mlpOut,     \* what the last MLP.forward call returned
    log,        \* the calls forward has made to models.mip in this call
    history     \* the completed forward calls: arguments and result

vars == <<cfg, margs, mlp, phase, err, call, i_level, t_samples, weights,
          ret, rng, mlpIn, mlpOut, log, history>>

(***************************************************************************)
(* Bounds of the model.                                                    *)
(***************************************************************************)
MaxLevels == 3
MaxDegView == 1
MaxDegPoint == 1
MaxCalls == 3
NumRays == 1
RngPeriod == 3
MaxDepth == 5
MaxDepthCondition == 2
MaxWidth == 2
MaxSkip == 3
MaxDim == 2
MaxBatch == 1

(***************************************************************************)
(* Defaults of MipNerf.__init__.                                           *)
(***************************************************************************)
DefaultNumSamples == 128
DefaultNetDepth == 8
DefaultNetWidth == 256
DefaultNetDepthCondition == 1
DefaultNetWidthCondition == 128
DefaultSkipIndex == 4
DefaultRgbChannels == 3
DefaultDensityChannels == 1

(***************************************************************************)
(* MLP.__init__                                                            *)
(***************************************************************************)
Linear(dim_in, dim_out) == [in |-> dim_in, out |-> dim_out]

NoMLP ==
    [ok |-> FALSE, skip_index |-> 1, layers |-> <<>>,
     density_layer |-> Linear(0, 0), extra_layer |-> Linear(0, 0),
     view_layers |-> <<>>, color_layer |-> Linear(0, 0),
     activation |-> "none"]

\* dim_in of trunk layer i (0-based), lines 36-44
TrunkDimIn(i, a) ==
    IF i = 0 THEN a.xyz_dim
    ELSE IF (i - 1) % a.skip_index = 0 /\ i > 1 THEN a.net_width + a.xyz_dim
    ELSE a.net_width

\* dim_in of view layer i (0-based), lines 59-64
ViewDimIn(i, a) ==
    IF i = 0 THEN a.net_width + a.view_dim ELSE a.net_width_condition

\* the first loop, lines 34-50: the layers built, or raised at iteration i
RECURSIVE BuildTrunk(_, _, _)
BuildTrunk(i, a, layers) ==
    IF i >= a.net_depth THEN [raised |-> FALSE, layers |-> layers]
    ELSE IF a.activation = "relu"
         THEN BuildTrunk(i + 1, a,
                         Append(layers, Linear(TrunkDimIn(i, a), a.net_width)))
         ELSE [raised |-> TRUE, layers |-> layers]

\* the second loop, lines 57-70
RECURSIVE BuildView(_, _, _)
BuildView(i, a, layers) ==
    IF i >= a.net_depth_condition THEN [raised |-> FALSE, layers |-> layers]
    ELSE IF a.activation = "relu"
         THEN BuildView(i + 1, a,
                        Append(layers,
                               Linear(ViewDimIn(i, a), a.net_width_condition)))
         ELSE [raised |-> TRUE, layers |-> layers]

\* MLP.__init__: the module constructed, or ok = FALSE for NotImplementedError
MLPInit(a) ==
    LET trunk == BuildTrunk(0, a, <<>>)
        view == BuildView(0, a, <<>>)
    IN  IF trunk.raised \/ view.raised THEN NoMLP
        ELSE [ok |-> TRUE, skip_index |-> a.skip_index,
              layers |-> trunk.layers,
              density_layer |-> Linear(a.net_width, a.num_density_channels),
              extra_layer |-> Linear(a.net_width, a.net_width),
              view_layers |-> view.layers,
              color_layer |-> Linear(a.net_width_condition, a.num_rgb_channels),
              activation |-> a.activation]

(***************************************************************************)
(* MLP.forward.  A tensor [batch, num_samples, feature] is <<b, n, w>>;    *)
(* a width of -1 stands for a shape error raised by torch.                 *)
(***************************************************************************)
NoView == [present |-> FALSE, b |-> 0, w |-> 0]
View(b, w) == [present |-> TRUE, b |-> b, w |-> w]

NoOut ==
    [ok |-> FALSE, at |-> "none", raw_rgb |-> <<0, 0, 0>>,
     raw_density |-> <<0, 0, 0>>, trunk |-> <<>>, head |-> 0]
Raised(where, reached, w) ==
    [ok |-> FALSE, at |-> where, raw_rgb |-> <<0, 0, 0>>,
     raw_density |-> <<0, 0, 0>>, trunk |-> reached, head |-> w]

\* the skip concatenation, line 96
Skips(i, skip_index) == i % skip_index = 0 /\ i > 0

\* lines 94-97: the widths that reached layers 0..i-1 so far are `reached`;
\* w is the width of x before layer i, inw the width of inputs
RECURSIVE RunTrunk(_, _, _, _, _)
RunTrunk(i, m, w, inw, reached) ==
    IF i >= Len(m.layers) THEN [w |-> w, reached |-> reached]
    ELSE IF m.layers[i + 1].in # w
         THEN [w |-> -1, reached |-> Append(reached, w)]
         ELSE LET out == m.layers[i + 1].out
                  cat == IF Skips(i, m.skip_index) THEN out + inw ELSE out
              IN  RunTrunk(i + 1, m, cat, inw, Append(reached, w))

\* line 109: torch.nn.Sequential over the view layers
RECURSIVE RunView(_, _, _)
RunView(i, m, w) ==
    IF i >= Len(m.view_layers) THEN w
    ELSE IF m.view_layers[i + 1].in # w THEN -1
    ELSE RunView(i + 1, m, m.view_layers[i + 1].out)

MLPForward(m, x, v) ==
    LET b == x[1]
        n == x[2]
        t == RunTrunk(0, m, x[3], x[3], <<>>)
    IN  IF t.w = -1 THEN Raised("layers", t.reached, -1)
        ELSE IF m.density_layer.in # t.w
        THEN Raised("density_layer", t.reached, t.w)
        ELSE IF ~v.present
        THEN IF m.color_layer.in # t.w
             THEN Raised("color_layer", t.reached, t.w)
             ELSE [ok |-> TRUE, at |-> "none",
                   raw_rgb |-> <<b, n, m.color_layer.out>>,
                   raw_density |-> <<b, n, m.density_layer.out>>,
                   trunk |-> t.reached, head |-> t.w]
        ELSE IF m.extra_layer.in # t.w
        THEN Raised("extra_layer", t.reached, t.w)
        ELSE IF v.b # b THEN Raised("cat", t.reached, t.w)
        ELSE LET vw == RunView(0, m, m.extra_layer.out + v.w)
             IN  IF vw = -1 THEN Raised("view_layers", t.reached, t.w)
                 ELSE IF m.color_layer.in # vw
                 THEN Raised("color_layer", t.reached, t.w)
                 ELSE [ok |-> TRUE, at |-> "none",
                       raw_rgb |-> <<b, n, m.color_layer.out>>,
                       raw_density |-> <<b, n, m.density_layer.out>>,
                       trunk |-> t.reached, head |-> t.w]

(***************************************************************************)
(* MipNerf.__init__                                                        *)
(***************************************************************************)
RayShapes == {"cone", "cylinder", "sphere"}

\* lines 156-161: the arguments self.mlp is constructed with
MLPArgsOf(c) ==
    LET mlp_xyz_dim == (c.max_deg_point - c.min_deg_point) * 3 * 2
        mlp_view_dim == c.deg_view * 3 * 2
    IN  [net_depth |-> c.mlp_net_depth, net_width |-> c.mlp_net_width,
         net_depth_condition |-> c.mlp_net_depth_condition,
         net_width_condition |-> c.mlp_net_width_condition,
         skip_index |-> c.mlp_skip_index,
         num_rgb_channels |-> c.mlp_num_rgb_channels,
         num_density_channels |-> c.mlp_num_density_channels,
         activation |-> c.mlp_net_activation,
         xyz_dim |-> mlp_xyz_dim,
         view_dim |-> IF c.append_identity THEN mlp_view_dim + 3
                      ELSE mlp_view_dim]

\* a variant of MipNerfInit that validates the ray shape at construction
MipNerfInitCheckingShape(c) ==
    LET m == MLPInit(MLPArgsOf(c))
    IN  IF ~m.ok THEN [ok |-> FALSE, err |-> "mlp_net_activation", mlp |-> NoMLP]
        ELSE IF c.ray_shape \notin {"cone", "cylinder"}
        THEN [ok |-> FALSE, err |-> "ray_shape", mlp |-> NoMLP]
        ELSE IF c.rgb_activation # "sigmoid"
        THEN [ok |-> FALSE, err |-> "rgb_activation", mlp |-> NoMLP]
        ELSE IF c.density_activation # "softplus"
        THEN [ok |-> FALSE, err |-> "density_activation", mlp |-> NoMLP]
        ELSE [ok |-> TRUE, err |-> "none", mlp |-> m]

\* lines 142-170: the attributes are stored, the MLP is constructed, and the
\* two activations are checked; err names the argument NotImplementedError
\* was raised for
MipNerfInit(c) ==
    LET m == MLPInit(MLPArgsOf(c))
    IN  IF ~m.ok THEN [ok |-> FALSE, err |-> "mlp_net_activation", mlp |-> NoMLP]
        ELSE IF c.rgb_activation # "sigmoid"
        THEN [ok |-> FALSE, err |-> "rgb_activation", mlp |-> NoMLP]
        ELSE IF c.density_activation # "softplus"
        THEN [ok |-> FALSE, err |-> "density_activation", mlp |-> NoMLP]
        ELSE [ok |-> TRUE, err |-> "none", mlp |-> m]

(***************************************************************************)
(* models.mip, as MipNerf.forward calls it.  A value computed from random  *)
(* draws carries them: draw 0 is "no draw" (deterministic), draw g + 1 is  *)
(* the draw made with the global generator in state g.  gen counts the     *)
(* sampling generations behind a SampleSet: 0 for a stratified one, one    *)
(* more than its input for a resampled one.                                *)
(***************************************************************************)
None == [gen |-> -1, n |-> 0, draws |-> <<>>]

Draw(g, randomized) == IF randomized THEN g + 1 ELSE 0
Advance(g, randomized) == IF randomized THEN (g + 1) % RngPeriod ELSE g

SupportedShape(ray_shape) == ray_shape \in {"cone", "cylinder"}

\* the Ray Sampler: no generator is passed to it (lines 188-198), so its
\* jitter comes from the global one
sample_along_rays(rays, num_samples, randomized, ray_shape, g) ==
    IF ~SupportedShape(ray_shape)
    THEN [ok |-> FALSE, t |-> None, means_covs |-> <<0, 0, 0>>, rng |-> g]
    ELSE [ok |-> TRUE,
          t |-> [gen |-> 0, n |-> num_samples,
                 draws |-> <<Draw(g, randomized)>>],
          means_covs |-> <<rays, num_samples, 3>>,
          rng |-> Advance(g, randomized)]

\* the Resampler (lines 200-210)
resample_along_rays(rays, t, w, randomized, ray_shape, g) ==
    IF ~SupportedShape(ray_shape) \/ t = None \/ w = None
    THEN [ok |-> FALSE, t |-> None, means_covs |-> <<0, 0, 0>>, rng |-> g]
    ELSE [ok |-> TRUE,
          t |-> [gen |-> t.gen + 1, n |-> t.n,
                 draws |-> w.draws \o <<Draw(g, randomized)>>],
          means_covs |-> <<rays, t.n, 3>>,
          rng |-> Advance(g, randomized)]

\* integrated_pos_enc: [B, N, 3] -> [B, N, 2*3*(max_deg - min_deg)]
integrated_pos_enc(means_covs, min_deg, max_deg) ==
    <<means_covs[1], means_covs[2], 2 * 3 * (max_deg - min_deg)>>

\* pos_enc of the view directions: [B, 3] -> [B, 2*3*(max_deg - min_deg) (+3)]
pos_enc(rays, min_deg, max_deg, append_identity) ==
    View(rays, 2 * 3 * (max_deg - min_deg) + (IF append_identity THEN 3 ELSE 0))

\* volumetric_rendering: comp_rgb, distance, acc, weights
volumetric_rendering(density, t, white_bkgd) ==
    [comp_rgb |-> [gen |-> t.gen, draws |-> density, white |-> white_bkgd],
     distance |-> [gen |-> t.gen, draws |-> density],
     acc |-> [gen |-> t.gen, draws |-> density],
     weights |-> [gen |-> t.gen, n |-> t.n, draws |-> density]]

(***************************************************************************)
(* MipNerf.forward, one iteration of its loop at a time.                   *)
(***************************************************************************)
NoArgs ==
    [net_depth |-> 0, net_width |-> 0, net_depth_condition |-> 0,
     net_width_condition |-> 0, skip_index |-> 1, num_rgb_channels |-> 0,
     num_density_channels |-> 0, activation |-> "none", xyz_dim |-> 0,
     view_dim |-> 0]
NoCall == [rays |-> 0, randomized |-> FALSE, white_bkgd |-> FALSE, rng0 |-> 0]
NoIn == [x |-> <<0, 0, 0>>, v |-> NoView]
NoLog == [sampler |-> <<>>, resampler |-> <<>>, pos_enc |-> <<>>,
          integrator |-> <<>>]

\* a level test that also sends level 1 to the Ray Sampler
IsFirstLevelOrSecond(i) == i <= 1

\* line 186
IsFirstLevel(i) == i = 0

\* a view encoding computed at level 0 only
EncodesViewOnce(c, i) == c.use_viewdirs /\ i = 0

\* line 220: whether this iteration encodes the view directions and hands
\* them to the MLP
EncodesView(c, i) == c.use_viewdirs

\* density noise whatever the randomized flag
AddsNoiseAlways(c, randomized) == c.density_noise > 0

\* line 232
AddsNoise(c, randomized) == randomized /\ (c.density_noise > 0)

\* weights kept from the first level that set them
CarryWeightsStale(old, new) == IF old = None THEN new ELSE old

\* line 239: the loop-carried weights are those just rendered
CarryWeights(old, new) == new

\* a result list that keeps the last level only
RetKeepLast(r, entry) == <<entry>>

\* line 246
RetAppend(r, entry) == Append(r, entry)

Construct ==
    /\ phase = "config"
    /\ LET r == MipNerfInit(cfg)
       IN  /\ phase' = IF r.ok THEN "ready" ELSE "init_failed"
           /\ err' = r.err
           /\ mlp' = r.mlp
           /\ margs' = MLPArgsOf(cfg)
    /\ UNCHANGED <<cfg, call, i_level, t_samples, weights, ret, rng, mlpIn,
                   mlpOut, log, history>>

\* lines 172-183: a call on a batch of NumRays rays
ForwardBegin ==
    /\ phase = "ready"
    /\ Len(history) < MaxCalls
    /\ \E rays \in {NumRays}, randomized \in BOOLEAN, white_bkgd \in BOOLEAN :
          call' = [rays |-> rays, randomized |-> randomized,
                   white_bkgd |-> white_bkgd, rng0 |-> rng]
    /\ phase' = "running"
    /\ err' = "none"
    /\ i_level' = 0
    /\ ret' = <<>>
    /\ t_samples' = None
    /\ weights' = None
    /\ log' = NoLog
    /\ UNCHANGED <<cfg, margs, mlp, rng, mlpIn, mlpOut, history>>

\* an exception leaves forward: its locals are gone, the model remains
Abort(where, g, lg, mi, mo) ==
    /\ phase' = "ready"
    /\ err' = where
    /\ rng' = g
    /\ log' = lg
    /\ mlpIn' = mi
    /\ mlpOut' = mo
    /\ call' = NoCall
    /\ i_level' = 0
    /\ ret' = <<>>
    /\ t_samples' = None
    /\ weights' = None

\* lines 184-246, one iteration
LevelStep ==
    /\ phase = "running"
    /\ i_level < cfg.num_levels
    /\ LET first == IsFirstLevel(i_level)
           s == IF first
                THEN sample_along_rays(call.rays, cfg.num_samples,
                                       call.randomized, cfg.ray_shape, rng)
                ELSE resample_along_rays(call.rays, t_samples, weights,
                                         call.randomized, cfg.ray_shape, rng)
           lg1 == IF first
                  THEN [log EXCEPT !.sampler = Append(@, i_level)]
                  ELSE [log EXCEPT !.resampler =
                           Append(@, [lvl |-> i_level, t |-> t_samples,
                                      w |-> weights])]
           samples_enc == integrated_pos_enc(s.means_covs, cfg.min_deg_point,
                                             cfg.max_deg_point)
           enc == EncodesView(cfg, i_level)
           v == IF enc THEN pos_enc(call.rays, 0, cfg.deg_view, TRUE)
                ELSE NoView
           lg2 == IF enc THEN [lg1 EXCEPT !.pos_enc = Append(@, i_level)]
                  ELSE lg1
           mi == [x |-> samples_enc, v |-> v]
           out == MLPForward(mlp, samples_enc, v)
           noisy == AddsNoise(cfg, call.randomized)
           density == s.t.draws \o <<Draw(s.rng, noisy)>>
           r == volumetric_rendering(density, s.t, call.white_bkgd)
           lg3 == [lg2 EXCEPT !.integrator =
                      Append(@, [lvl |-> i_level, t |-> s.t])]
           entry == [comp_rgb |-> r.comp_rgb, distance |-> r.distance,
                     acc |-> r.acc, weights |-> r.weights, t_samples |-> s.t]
       IN  IF ~s.ok THEN /\ Abort("sampler", s.rng, lg1, mlpIn, mlpOut)
                         /\ UNCHANGED <<cfg, margs, mlp, history>>
           ELSE IF ~out.ok THEN /\ Abort("mlp", s.rng, lg2, mi, out)
                                /\ UNCHANGED <<cfg, margs, mlp, history>>
           ELSE /\ t_samples' = s.t
                /\ weights' = CarryWeights(weights, r.weights)
                /\ ret' = RetAppend(ret, entry)
                /\ rng' = Advance(s.rng, noisy)
                /\ log' = lg3
                /\ mlpIn' = mi
                /\ mlpOut' = out
                /\ i_level' = i_level + 1
                /\ UNCHANGED <<cfg, margs, mlp, phase, err, call, history>>

\* line 248
ForwardReturn ==
    /\ phase = "running"
    /\ i_level >= cfg.num_levels
    /\ history' = Append(history,
                         [rays |-> call.rays, randomized |-> call.randomized,
                          white_bkgd |-> call.white_bkgd, rng0 |-> call.rng0,
                          ret |-> ret, log |-> log])
    /\ phase' = "ready"
    /\ call' = NoCall
    /\ i_level' = 0
    /\ ret' = <<>>
    /\ t_samples' = None
    /\ weights' = None
    /\ UNCHANGED <<cfg, margs, mlp, err, rng, mlpIn, mlpOut, log>>

\* the configurations explored
CfgSpace ==
    [num_samples : {DefaultNumSamples},
     num_levels : 1..MaxLevels,
     use_viewdirs : BOOLEAN,
     ray_shape : RayShapes,
     min_deg_point : 0..(MaxDegPoint - 1),
     max_deg_point : 1..MaxDegPoint,
     deg_view : 1..MaxDegView,
     density_activation : {"softplus", "relu"},
     density_noise : {0, 1},
     rgb_activation : {"sigmoid", "tanh"},
     append_identity : BOOLEAN,
     mlp_net_depth : {DefaultNetDepth},
     mlp_net_width : {DefaultNetWidth},
     mlp_net_depth_condition : {DefaultNetDepthCondition},
     mlp_net_width_condition : {DefaultNetWidthCondition, DefaultNetWidth},
     mlp_skip_index : {DefaultSkipIndex},
     mlp_num_rgb_channels : {DefaultRgbChannels},
     mlp_num_density_channels : {DefaultDensityChannels},
     mlp_net_activation : {"relu", "tanh"}]

Init ==
    /\ cfg \in {c \in CfgSpace : c.min_deg_point < c.max_deg_point}
    /\ margs = NoArgs
    /\ mlp = NoMLP
    /\ phase = "config"
    /\ err = "none"
    /\ call = NoCall
    /\ i_level = 0
    /\ t_samples = None
    /\ weights = None
    /\ ret = <<>>
    /\ rng = 0
    /\ mlpIn = NoIn
    /\ mlpOut = NoOut
    /\ log = NoLog
    /\ history = <<>>

Next == Construct \/ ForwardBegin \/ LevelStep \/ ForwardReturn

Spec == Init /\ [][Next]_vars

(***************************************************************************)
(* The MLP on its own: constructed from any arguments, then called.        *)
(***************************************************************************)
\* the defaults of MipNerf.__init__, lines 117-141
DefaultCfg ==
    [num_samples |-> DefaultNumSamples, num_levels |-> 2,
     use_viewdirs |-> TRUE, ray_shape |-> "cone", min_deg_point |-> 0,
     max_deg_point |-> 16, deg_view |-> 4, density_activation |-> "softplus",
     density_noise |-> 0, rgb_activation |-> "sigmoid",
     append_identity |-> TRUE, mlp_net_depth |-> DefaultNetDepth,
     mlp_net_width |-> DefaultNetWidth,
     mlp_net_depth_condition |-> DefaultNetDepthCondition,
     mlp_net_width_condition |-> DefaultNetWidthCondition,
     mlp_skip_index |-> DefaultSkipIndex,
     mlp_num_rgb_channels |-> DefaultRgbChannels,
     mlp_num_density_channels |-> DefaultDensityChannels,
     mlp_net_activation |-> "relu"]

MLPArgSpace ==
    [net_depth : 0..MaxDepth,
     net_width : 1..MaxWidth,
     net_depth_condition : 0..MaxDepthCondition,
     net_width_condition : 1..MaxWidth,
     skip_index : 1..MaxSkip,
     num_rgb_channels : {DefaultRgbChannels},
     num_density_channels : {DefaultDensityChannels},
     activation : {"relu", "tanh"},
     xyz_dim : 0..MaxDim,
     view_dim : 0..MaxDim]

\* MLP.__init__, lines 32-73
MLPConstruct ==
    /\ phase = "mlp_args"
    /\ LET m == MLPInit(margs)
       IN  /\ mlp' = m
           /\ phase' = IF m.ok THEN "mlp_ready" ELSE "mlp_failed"
           /\ err' = IF m.ok THEN "none" ELSE "activation"
    /\ UNCHANGED <<cfg, margs, call, i_level, t_samples, weights, ret, rng,
                   mlpIn, mlpOut, log, history>>

\* MLP.forward, lines 92-111, on x of any width, with or without a view
MLPCall ==
    /\ phase = "mlp_ready"
    /\ \E b \in 1..MaxBatch, n \in 1..MaxBatch, w \in 0..MaxDim,
          v \in {NoView} \cup {View(vb, vw) : vb \in 1..MaxBatch,
                                              vw \in 0..MaxDim} :
          /\ mlpIn' = [x |-> <<b, n, w>>, v |-> v]
          /\ mlpOut' = MLPForward(mlp, <<b, n, w>>, v)
    /\ UNCHANGED <<cfg, margs, mlp, phase, err, call, i_level, t_samples,
                   weights, ret, rng, log, history>>

InitMLP ==
    /\ cfg = DefaultCfg
    /\ margs \in MLPArgSpace
    /\ mlp = NoMLP
    /\ phase = "mlp_args"
    /\ err = "none"
    /\ call = NoCall
    /\ i_level = 0
    /\ t_samples = None
    /\ weights = None
    /\ ret = <<>>
    /\ rng = 0
    /\ mlpIn = NoIn
    /\ mlpOut = NoOut
    /\ log = NoLog
    /\ history = <<>>

NextMLP == MLPConstruct \/ MLPCall

SpecMLP == InitMLP /\ [][NextMLP]_vars

(***************************************************************************)
(* The claims.                                                             *)
(***************************************************************************)
Completed == {history[k] : k \in 1..Len(history)}

ProducedAt(entry, k) ==
    /\ DOMAIN entry = {"comp_rgb", "distance", "acc", "weights", "t_samples"}
    /\ entry.comp_rgb.gen = k
    /\ entry.distance.gen = k
    /\ entry.acc.gen = k
    /\ entry.weights.gen = k
    /\ entry.t_samples.gen = k

C2_SamplerOnceResamplerPerFineLevel ==
    /\ \A h \in Completed :
          /\ h.log.sampler = <<0>>
          /\ Len(h.log.resampler) = cfg.num_levels - 1
          /\ \A j \in 1..Len(h.log.resampler) : h.log.resampler[j].lvl = j
          /\ cfg.num_levels = 1 => h.log.resampler = <<>> /\ Len(h.ret) = 1
    /\ phase = "running" =>
          /\ \A j \in 1..Len(log.sampler) : log.sampler[j] = 0
          /\ \A j \in 1..Len(log.resampler) : log.resampler[j].lvl >= 1

\* C2 witness: a call with fine levels has returned, the Resampler having run
C2_Witness ==
    \E h \in Completed : cfg.num_levels >= 2 /\ Len(h.log.resampler) >= 1

\* C9: the Resampler call at level k+1 receives exactly the SampleSet and
\* the weights level k produced, never an earlier level's and never an unset
\* value, and the SampleSet stored in returned entry k is the one passed to
\* the integrator at level k.
C9_LevelFeedsNext ==
    \A h \in Completed :
        /\ \A j \in 1..Len(h.log.resampler) :
              /\ j <= Len(h.ret)
              /\ h.log.resampler[j].t = h.ret[j].t_samples
              /\ h.log.resampler[j].w = h.ret[j].weights
              /\ h.log.resampler[j].t # None
              /\ h.log.resampler[j].w # None
        /\ Len(h.log.integrator) = Len(h.ret)
        /\ \A j \in 1..Len(h.ret) :
              /\ h.log.integrator[j].lvl = j - 1
              /\ h.log.integrator[j].t = h.ret[j].t_samples

\* C9 witness: a call has returned in which level 2 resampled from level 1
C9_Witness ==
    \E h \in Completed :
        /\ Len(h.log.resampler) >= 2
        /\ h.log.resampler[2].w = h.ret[2].weights
        /\ h.log.resampler[2].w # h.ret[1].weights

\* C10 as stated: with view conditioning the plain positional encoder is
\* invoked on the view directions exactly once per forward call, whatever
\* the number of levels.
C10_ViewEncodedOncePerCall ==
    \A h \in Completed : cfg.use_viewdirs => Len(h.log.pos_enc) = 1

\* C10 amended: the view directions are encoded inside the level loop, once
\* at every level: num_levels times per completed call with view
\* conditioning, never without it.
C10_ViewEncodedOncePerLevel ==
    \A h \in Completed :
        /\ Len(h.log.pos_enc) = (IF cfg.use_viewdirs THEN cfg.num_levels ELSE 0)
        /\ \A j \in 1..Len(h.log.pos_enc) : h.log.pos_enc[j] = j - 1

\* C10 witness: a view-conditioned call over several levels has returned
C10_Witness ==
    \E h \in Completed :
        cfg.use_viewdirs /\ cfg.num_levels >= 2 /\ Len(h.log.pos_enc) >= 2

ActivationsSupported(c) ==
    /\ c.mlp_net_activation = "relu"
    /\ c.rgb_activation = "sigmoid"
    /\ c.density_activation = "softplus"

SameInputs(a, b) ==
    /\ a.rays = b.rays
    /\ a.randomized = b.randomized
    /\ a.white_bkgd = b.white_bkgd

\* C5 as stated: two forward calls with the same rays and flags (and the
\* same parameters) return identical outputs regardless of the calls run in
\* between.
C5_SameInputsSameOutputs ==
    \A a \in Completed, b \in Completed : SameInputs(a, b) => a.ret = b.ret

\* C5 amended: forward takes no seed; its draws come from the global
\* generator.  Two calls with the same rays and flags return identical
\* outputs when randomized is false, whatever ran in between, or when the
\* global generator is in the same state at the start of both.
C5_DeterministicGivenGeneratorState ==
    \A a \in Completed, b \in Completed :
        (SameInputs(a, b) /\ (~a.randomized \/ a.rng0 = b.rng0))
            => a.ret = b.ret

\* C5 witness: two non-randomized calls with the same inputs have returned,
\* the generator having moved between them
C5_Witness ==
    \E j \in 1..Len(history), k \in 1..Len(history) :
        /\ j < k
        /\ SameInputs(history[j], history[k])
        /\ ~history[j].randomized
        /\ history[j].rng0 # history[k].rng0
        /\ history[j].ret = history[k].ret

\* C6: the view encoding forward hands to the MLP has length 2*3*deg_view,
\* plus 3 exactly when append_identity is true, which is the view_dim the MLP
\* was constructed with; the position encoding has length
\* 2*3*(max_deg_point - min_deg_point), the xyz_dim of the MLP.
C6_EncodingWidthsMatchMLP ==
    (phase \in {"ready", "running"} /\ mlpIn # NoIn) =>
        /\ mlpIn.x[3] = 2 * 3 * (cfg.max_deg_point - cfg.min_deg_point)
        /\ mlpIn.x[3] = margs.xyz_dim
        /\ mlpIn.v.present =>
              /\ mlpIn.v.w = 2 * 3 * cfg.deg_view
                             + (IF cfg.append_identity THEN 3 ELSE 0)
              /\ mlpIn.v.w = margs.view_dim

\* C4: no MLP with a hidden activation other than 'relu' is ever constructed,
\* whatever net_depth >= 0 and net_depth_condition >= 0.
C4_OnlyReluConstructs ==
    phase \in {"mlp_ready", "mlp_failed"} =>
        (margs.activation # "relu" => ~mlp.ok /\ phase = "mlp_failed")

WellFormedCall ==
    /\ phase = "mlp_ready"
    /\ mlpIn # NoIn
    /\ mlpIn.x[3] = margs.xyz_dim
    /\ mlpIn.v.present => (mlpIn.v.w = margs.view_dim /\ mlpIn.v.b = mlpIn.x[1])

\* C7: given position features of width xyz_dim and view features of width
\* view_dim or none, MLP.forward meets no width mismatch at the color head
\* and returns raw color [batch, samples, num_rgb_channels] and raw density
\* [batch, samples, num_density_channels].
C7_ColorHeadFits ==
    WellFormedCall =>
        /\ mlpOut.at # "color_layer"
        /\ mlpOut.ok =>
              /\ mlpOut.raw_rgb =
                    <<mlpIn.x[1], mlpIn.x[2], margs.num_rgb_channels>>
              /\ mlpOut.raw_density =
                    <<mlpIn.x[1], mlpIn.x[2], margs.num_density_channels>>

\* C8: for net_depth >= 1 and skip_index >= 1 the width each trunk layer was
\* constructed with is the width of the tensor that reaches it in
\* MLP.forward, and the tensor reaching the density head has width net_width.
C8_TrunkAndDensityHeadFit ==
    (WellFormedCall /\ margs.net_depth >= 1 /\ margs.skip_index >= 1) =>
        /\ Len(mlpOut.trunk) = Len(mlp.layers)
        /\ \A i \in 1..Len(mlp.layers) : mlpOut.trunk[i] = mlp.layers[i].in
        /\ mlpOut.head = margs.net_width
        /\ mlpOut.head = mlp.density_layer.in

\* the part of C8 about the trunk layers alone
C8_TrunkFits ==
    (WellFormedCall /\ margs.net_depth >= 1 /\ margs.skip_index >= 1) =>
        /\ Len(mlpOut.trunk) = Len(mlp.layers)
        /\ \A i \in 1..Len(mlp.layers) : mlpOut.trunk[i] = mlp.layers[i].in

====
